---- MODULE Spec2Model ----
(***************************************************************************)
(* swift::atomic<T> (Sources/_CJavaScriptEventLoop/include/swift/Runtime/  *)
(* Atomic.h): a cell holding one value, read by load(order) and changed    *)
(* only by compare_exchange_weak(oldValue&, newValue, successOrder,        *)
(* failureOrder).  Two strategies exist: the generic atomic_impl, which    *)
(* forwards to std::atomic, and the specialization for values of two       *)
(* pointer widths, which issues _InterlockedCompareExchange128.            *)
(*                                                                         *)
(* A value is a pair of words <<word[0], word[1]>>.  Every call is one     *)
(* atomic step (one std::atomic operation, one interlocked instruction).   *)
(* assert() is modelled as compiled in (NDEBUG not defined): a false       *)
(* condition aborts the process.  A std::atomic call made outside its      *)
(* preconditions is undefined behaviour: the model lets it either abort    *)
(* (a checking standard library) or be carried out.                        *)
(***************************************************************************)
EXTENDS Integers, Sequences, FiniteSets, TLC

\* ---------------------------------------------------------------- bounds
MaxWord == 1
NumThreads == 2

\* A value is <<word[0], word[1]>>; the second word takes two values, enough
\* to tell the halves apart.
Word == 0..MaxWord
HighWord == {0, 1}
Value == Word \X HighWord
Zero == <<0, 0>>
Threads == 1..NumThreads

\* ------------------------------------------------------ std::memory_order
Orders == {"relaxed", "consume", "acquire", "release", "acq_rel", "seq_cst"}

VARIABLES
  kind,           \* which atomic_impl the value's size selects
  hasArmAtomics,  \* SWIFT_HAS_MSVC_ARM_ATOMICS
  cell,           \* the stored value (value / atomicValue)
  oldValue,       \* per thread: the caller's variable passed as oldValue&
  last,           \* the most recent call: its arguments and what it returned
  aborted,        \* an assertion has fired: the process is gone
  latest,         \* the value last put in the cell, and whether the constructor
                  \* or a compare_exchange_weak that returned true put it there
  twin,           \* a generic cell driven with the same calls (SpecPair only)
  lock            \* std::atomic<Value>'s internal lock, where it has one
                  \* (SpecLock only): who holds it, and for which call

vars ==
  <<kind, hasArmAtomics, cell, oldValue, last, aborted, latest, twin, lock>>

\* ---------------------------------------------------------- the primitives

\* What one call does: what it reports, the value stored afterwards, the
\* value handed back (load's result, or oldValue& after the call), and the
\* instruction issued.
Outcome(o, c, out, insn) ==
  [outcome |-> o, cell |-> c, out |-> out, insn |-> insn]

\* The process is aborted before anything touches the cell.
Aborts(v, out) == Outcome("abort", v, out, "none")

\* std::atomic<Value>::load: preconditions of [atomics.types.operations].
StdLoadOrderValid(order) == order \notin {"release", "acq_rel"}

\* How much acquire ordering an order asks of the load half of an operation.
AcquireStrength(order) ==
  CASE order = "relaxed" -> 0
    [] order = "release" -> 0
    [] order = "consume" -> 1
    [] order = "acquire" -> 2
    [] order = "acq_rel" -> 2
    [] order = "seq_cst" -> 3

\* std::atomic<Value>::compare_exchange_weak: failure is neither release nor
\* acq_rel, and no stronger than success.
StdCasOrdersValid(successOrder, failureOrder) ==
  /\ failureOrder \notin {"release", "acq_rel"}
  /\ AcquireStrength(failureOrder) <= AcquireStrength(successOrder)

\* Mutant: a successful exchange keeps the old contents.
StdCompareExchangeWeak_NoStore(v, expected, desired, spurious) ==
  IF v = expected /\ ~spurious
    THEN Outcome("true", v, expected, "std")
    ELSE Outcome("false", v, v, "std")

\* std::atomic<Value>::compare_exchange_weak on a cell holding v; spurious:
\* the weak form may fail although the comparison succeeded.
StdCompareExchangeWeak(v, expected, desired, spurious) ==
  IF v = expected /\ ~spurious
    THEN Outcome("true", desired, expected, "std")
    ELSE Outcome("false", v, v, "std")

\* Mutant: the exchange is stored whether or not the comparison succeeded.
InterlockedCompareExchange128_AlwaysStores(dest, exchangeHigh, exchangeLow, comparand, insn) ==
  Outcome(IF dest = comparand THEN "true" ELSE "false",
          <<exchangeLow, exchangeHigh>>, dest, insn)

\* Mutant: a failed comparison leaves ComparandResult as the caller passed it.
InterlockedCompareExchange128_NoWriteBack(dest, exchangeHigh, exchangeLow, comparand, insn) ==
  IF dest = comparand
    THEN Outcome("true", <<exchangeLow, exchangeHigh>>, dest, insn)
    ELSE Outcome("false", dest, comparand, insn)

\* _InterlockedCompareExchange128(Destination, ExchangeHigh, ExchangeLow,
\* ComparandResult): compares the 16 bytes at Destination with
\* ComparandResult, stores ExchangeHigh:ExchangeLow when they are equal, and
\* always leaves the prior contents of Destination in ComparandResult.
InterlockedCompareExchange128(dest, exchangeHigh, exchangeLow, comparand, insn) ==
  IF dest = comparand
    THEN Outcome("true", <<exchangeLow, exchangeHigh>>, dest, insn)
    ELSE Outcome("false", dest, dest, insn)

\* ------------------------------------------------- the generic atomic_impl

GenericLoad(v, order) ==
  {Outcome("loaded", v, v, "std")}
    \cup (IF StdLoadOrderValid(order) THEN {} ELSE {Aborts(v, Zero)})

GenericCompareExchangeWeak(v, old, new, successOrder, failureOrder) ==
  {StdCompareExchangeWeak(v, old, new, spurious) : spurious \in BOOLEAN}
    \cup (IF StdCasOrdersValid(successOrder, failureOrder)
            THEN {} ELSE {Aborts(v, old)})

\* ---------------------------------------- atomic_impl<Value, 2*sizeof(void*)>

\* Mutant: the load assertion also lets seq_cst through.
WideLoadAsserts_SeqCst(order) ==
  order \in {"relaxed", "acquire", "consume", "seq_cst"}

WideLoadAsserts(order) == order \in {"relaxed", "acquire", "consume"}

WideLoadInsn(arm, order) ==
  IF arm /\ order # "acquire" THEN "nf" ELSE "full"

WideLoad_ExchangesOne(arm, v, order) ==
  IF ~WideLoadAsserts(order)
    THEN {Aborts(v, Zero)}
    ELSE LET r == InterlockedCompareExchange128(v, 0, 1, Zero,
                                                WideLoadInsn(arm, order))
         IN  {Outcome("loaded", r.cell, r.out, r.insn)}

WideLoad(arm, v, order) ==
  IF ~WideLoadAsserts(order)
    THEN {Aborts(v, Zero)}
    ELSE LET r == InterlockedCompareExchange128(v, 0, 0, Zero,
                                                WideLoadInsn(arm, order))
         IN  {Outcome("loaded", r.cell, r.out, r.insn)}

\* Mutant: the second assertion also lets an acquire success order through.
WideCasAsserts_AcquireSuccess(successOrder, failureOrder) ==
  /\ failureOrder \in {"relaxed", "acquire", "consume"}
  /\ successOrder \in {"relaxed", "release", "acquire"}

\* Mutant: the first assertion is missing.
WideCasAsserts_NoFailureCheck(successOrder, failureOrder) ==
  successOrder \in {"relaxed", "release"}

\* Mutant: the first assertion also lets seq_cst through.
WideCasAsserts_SeqCstFailure(successOrder, failureOrder) ==
  /\ failureOrder \in {"relaxed", "acquire", "consume", "seq_cst"}
  /\ successOrder \in {"relaxed", "release"}

WideCasAsserts(successOrder, failureOrder) ==
  /\ failureOrder \in {"relaxed", "acquire", "consume"}
  /\ successOrder \in {"relaxed", "release"}

WideCasInsn_AlwaysFull(arm, successOrder, failureOrder) == "full"

WideCasInsn_Unfenced(arm, successOrder, failureOrder) ==
  IF arm THEN "nf" ELSE "full"

WideCasInsn(arm, successOrder, failureOrder) ==
  IF ~arm THEN "full"
  ELSE IF successOrder = "relaxed" /\ failureOrder # "acquire" THEN "nf"
  ELSE IF successOrder = "relaxed" THEN "acq"
  ELSE IF failureOrder # "acquire" THEN "rel"
  ELSE "full"

WideCompareExchangeWeak_Spurious(arm, v, old, new, successOrder, failureOrder) ==
  IF ~WideCasAsserts(successOrder, failureOrder)
    THEN {Aborts(v, old)}
    ELSE {StdCompareExchangeWeak(v, old, new, spurious) :
            spurious \in BOOLEAN}

WideCompareExchangeWeak_SwappedHalves(arm, v, old, new, successOrder, failureOrder) ==
  IF ~WideCasAsserts(successOrder, failureOrder)
    THEN {Aborts(v, old)}
    ELSE {InterlockedCompareExchange128(
            v, new[1], new[2], old,
            WideCasInsn(arm, successOrder, failureOrder))}

WideCompareExchangeWeak(arm, v, old, new, successOrder, failureOrder) ==
  IF ~WideCasAsserts(successOrder, failureOrder)
    THEN {Aborts(v, old)}
    ELSE {InterlockedCompareExchange128(
            v, new[2], new[1], old,
            WideCasInsn(arm, successOrder, failureOrder))}

\* What the variants of the instruction order: _nf nothing, _acq as an
\* acquire, _rel as a release, the unsuffixed one as both.
HasAcquire(insn) == insn \in {"acq", "full"}
HasRelease(insn) == insn \in {"rel", "full"}

\* ------------------------------------------------------------ swift::atomic

AtomicLoad_SeqCstDefault(k, arm, v, order) ==
  IF k = "wide" THEN WideLoad(arm, v, "seq_cst")
                ELSE GenericLoad(v, "seq_cst")

\* atomic<T> derives from the atomic_impl its size selects.
AtomicLoad(k, arm, v, order) ==
  IF k = "wide" THEN WideLoad(arm, v, order) ELSE GenericLoad(v, order)

AtomicCompareExchangeWeak(k, arm, v, old, new, successOrder, failureOrder) ==
  IF k = "wide"
    THEN WideCompareExchangeWeak(arm, v, old, new, successOrder, failureOrder)
    ELSE GenericCompareExchangeWeak(v, old, new, successOrder, failureOrder)

\* ------------------------------------------------------------------ state

NoCall ==
  [thread |-> 0, op |-> "none", order |-> "none", successOrder |-> "none",
   failureOrder |-> "none", newValue |-> Zero, outcome |-> "none",
   result |-> Zero, insn |-> "none"]

NoTwin == [cell |-> Zero, oldValue |-> Zero, outcome |-> "none", result |-> Zero]

\* atomic(T value): the cell holds the value it is constructed with.
Construct(k, arm, v) ==
  /\ kind = k
  /\ hasArmAtomics = arm
  /\ cell = v
  /\ latest = [value |-> v, by |-> "constructor"]
  /\ last = NoCall
  /\ aborted = FALSE

\* The builds: the generic cell, and the wide cell with and without the
\* separate acquire / release instruction variants.
Builds == {<<"generic", FALSE>>, <<"wide", FALSE>>, <<"wide", TRUE>>}

\* std::atomic<Value>'s lock, not held; lockFree: std::atomic<Value> is
\* lock-free and has none.
Unlocked(lockFree) ==
  [lockFree |-> lockFree, holder |-> 0, op |-> "none", newValue |-> Zero]

InitCell ==
  /\ \E b \in Builds, v \in Value : Construct(b[1], b[2], v)
  /\ oldValue \in [Threads -> Value]
  /\ twin = NoTwin

Init == InitCell /\ lock = Unlocked(TRUE)

\* One caller: only thread 1 runs, the other threads' variables stay unused.
InitOne == Init /\ \A t \in Threads \ {1} : oldValue[t] = Zero

\* ----------------------------------------------------------------- actions

\* Thread t calls load(order) on the cell.
LoadCall(t, order) ==
  /\ ~aborted
  /\ \E r \in AtomicLoad(kind, hasArmAtomics, cell, order) :
       /\ cell' = r.cell
       /\ aborted' = (r.outcome = "abort")
       /\ last' = [thread |-> t, op |-> "load", order |-> order,
                   successOrder |-> "none", failureOrder |-> "none",
                   newValue |-> Zero, outcome |-> r.outcome,
                   result |-> r.out, insn |-> r.insn]
  /\ UNCHANGED <<kind, hasArmAtomics, oldValue, latest>>

Load(t, order) == LoadCall(t, order) /\ UNCHANGED <<twin, lock>>

\* Thread t calls compare_exchange_weak(oldValue[t], newValue, successOrder,
\* failureOrder) on the cell.
CompareExchangeWeakCall(t, newValue, successOrder, failureOrder) ==
  /\ ~aborted
  /\ \E r \in AtomicCompareExchangeWeak(kind, hasArmAtomics, cell, oldValue[t],
                                        newValue, successOrder, failureOrder) :
       /\ cell' = r.cell
       /\ oldValue' = [oldValue EXCEPT ![t] = r.out]
       /\ aborted' = (r.outcome = "abort")
       /\ latest' = IF r.outcome = "true"
                      THEN [value |-> newValue, by |-> "cas"] ELSE latest
       /\ last' = [thread |-> t, op |-> "cas", order |-> "none",
                   successOrder |-> successOrder,
                   failureOrder |-> failureOrder,
                   newValue |-> newValue, outcome |-> r.outcome,
                   result |-> r.out, insn |-> r.insn]
  /\ UNCHANGED <<kind, hasArmAtomics>>

CompareExchangeWeak(t, newValue, successOrder, failureOrder) ==
  CompareExchangeWeakCall(t, newValue, successOrder, failureOrder)
    /\ UNCHANGED <<twin, lock>>

\* Thread t assigns its own variable (expected = v) between calls.
AssignLocal(t, v) ==
  /\ ~aborted
  /\ oldValue[t] # v
  /\ oldValue' = [oldValue EXCEPT ![t] = v]
  /\ UNCHANGED <<kind, hasArmAtomics, cell, last, aborted, latest>>

Assign(t, v) == AssignLocal(t, v) /\ UNCHANGED <<twin, lock>>

\* ------------------------------------------------- threads racing on a cell

\* The orderings the racing threads use: the publish / observe pattern
\* (compare_exchange_weak(release, relaxed), load(acquire)) and the load
\* order std::atomic would default to.
RaceLoadOrders == {"acquire", "seq_cst"}
RaceCasOrders == {<<"release", "relaxed">>}

Next ==
  \E t \in Threads :
    \/ \E order \in RaceLoadOrders : Load(t, order)
    \/ \E newValue \in Value, o \in RaceCasOrders :
         CompareExchangeWeak(t, newValue, o[1], o[2])
    \/ \E v \in Value : Assign(t, v)

Spec == Init /\ [][Next]_vars

\* ------------------------------------------------- one thread, in sequence

NextSeq ==
  \/ \E order \in RaceLoadOrders : Load(1, order)
  \/ \E newValue \in Value, o \in RaceCasOrders :
       CompareExchangeWeak(1, newValue, o[1], o[2])
  \/ \E v \in Value : Assign(1, v)

SpecSeq == InitOne /\ [][NextSeq]_vars

\* ------------------------------------------- one thread, a retry loop

\* expected = cell's value;
\* while (!cell.compare_exchange_weak(expected, desired, so, fo)) {}
\* for (;;) cell.load(order);
RetryCasOrders == {<<"release", "relaxed">>, <<"relaxed", "relaxed">>}
RetryLoadOrders == {"relaxed", "acquire"}

InitRetry == InitOne /\ oldValue[1] = cell

RetryFirst ==
  /\ last.op = "none"
  /\ \E newValue \in Value, o \in RetryCasOrders :
       CompareExchangeWeak(1, newValue, o[1], o[2])

RetryAgain ==
  /\ last.op = "cas" /\ last.outcome = "false"
  /\ CompareExchangeWeak(1, last.newValue, last.successOrder,
                         last.failureOrder)

RetryLoad ==
  /\ latest.by = "cas"
  /\ \E order \in RetryLoadOrders : Load(1, order)

NextRetry == RetryFirst \/ RetryAgain \/ RetryLoad

\* A compare_exchange_weak whose comparison succeeds does not fail
\* spuriously for ever.
RetrySucceeds == (RetryFirst \/ RetryAgain) /\ last'.outcome = "true"

SpecRetry == InitRetry /\ [][NextRetry]_vars /\ WF_vars(RetrySucceeds)

\* ------------------------------- the same calls on a cell of each strategy

\* The wide cell is the cell; twin is a generic cell constructed with the
\* same value, called with the same arguments from a caller whose expected
\* variable starts out the same.
PairLoadOrders == {"acquire", "seq_cst"}
PairCasOrders ==
  {<<"release", "relaxed">>, <<"relaxed", "relaxed">>, <<"seq_cst", "seq_cst">>}

InitPair ==
  /\ \E arm \in BOOLEAN, v \in Value : Construct("wide", arm, v)
  /\ oldValue \in [Threads -> Value]
  /\ \A t \in Threads \ {1} : oldValue[t] = Zero
  /\ twin = [cell |-> cell, oldValue |-> oldValue[1], outcome |-> "none",
             result |-> Zero]
  /\ lock = Unlocked(TRUE)

\* The twin's call ends as g; expected is the caller's variable afterwards.
TwinStep(g, expected) ==
  twin' = [cell |-> g.cell, oldValue |-> expected, outcome |-> g.outcome,
           result |-> g.out]

PairLoad(order) ==
  /\ twin.outcome # "abort"
  /\ LoadCall(1, order)
  /\ \E g \in GenericLoad(twin.cell, order) : TwinStep(g, twin.oldValue)
  /\ UNCHANGED lock

PairCompareExchangeWeak(newValue, successOrder, failureOrder) ==
  /\ twin.outcome # "abort"
  /\ CompareExchangeWeakCall(1, newValue, successOrder, failureOrder)
  /\ \E g \in GenericCompareExchangeWeak(twin.cell, twin.oldValue, newValue,
                                         successOrder, failureOrder) :
       TwinStep(g, g.out)
  /\ UNCHANGED lock

PairAssign(v) ==
  /\ twin.outcome # "abort"
  /\ AssignLocal(1, v)
  /\ twin' = [twin EXCEPT !.oldValue = v]
  /\ UNCHANGED lock

NextPair ==
  \/ \E order \in PairLoadOrders : PairLoad(order)
  \/ \E newValue \in Value, o \in PairCasOrders :
       PairCompareExchangeWeak(newValue, o[1], o[2])
  \/ \E v \in Value : PairAssign(v)

SpecPair == InitPair /\ [][NextPair]_vars

\* ------------------------------------------- one thread, every ordering

NextOrders ==
  \/ \E order \in Orders : Load(1, order)
  \/ \E newValue \in Value, successOrder \in Orders,
        failureOrder \in Orders :
       CompareExchangeWeak(1, newValue, successOrder, failureOrder)
  \/ \E v \in Value : Assign(1, v)

SpecOrders == InitOne /\ [][NextOrders]_vars

\* ---------------------------------------- threads that can stop in mid-call
\* The generic cell's operations are std::atomic<Value>'s.  Where
\* std::atomic<Value> is not lock-free (MSVC's 16-byte atomics take an inline
\* spin lock, as the comment above the wide cell records) a call takes the
\* lock, works on the value and releases the lock, and a thread can be
\* descheduled for good between taking and releasing.  The wide cell holds a
\* plain volatile Value and issues one interlocked instruction per call.

UsesLock_NoSpecialization(k, lockFree) == ~lockFree

UsesLock(k, lockFree) == k = "generic" /\ ~lockFree

LockLoadOrder == "acquire"
LockCasOrders == <<"release", "relaxed">>

\* std::atomic<Value>::is_lock_free() is a property of the build; where the
\* wide cell is selected, MSVC's std::atomic<Value> is not.  Every thread's
\* expected starts all-zero and is from then on what its calls leave in it.
InitLock ==
  /\ \E b \in Builds, v \in Value : Construct(b[1], b[2], v)
  /\ oldValue = [t \in Threads |-> Zero]
  /\ twin = NoTwin
  /\ \E lockFree \in BOOLEAN :
       /\ kind = "wide" => ~lockFree
       /\ lock = Unlocked(lockFree)

\* A call that is one instruction, or one lock-free std::atomic operation.
DirectLoad(t) ==
  /\ ~UsesLock(kind, lock.lockFree)
  /\ Load(t, LockLoadOrder)

DirectCompareExchangeWeak(t, newValue) ==
  /\ ~UsesLock(kind, lock.lockFree)
  /\ CompareExchangeWeak(t, newValue, LockCasOrders[1], LockCasOrders[2])

\* A call on a locked std::atomic: spin until the lock is free, take it ...
TakeLock(t, op, newValue) ==
  /\ UsesLock(kind, lock.lockFree)
  /\ ~aborted
  /\ lock.holder = 0
  /\ lock' = [lock EXCEPT !.holder = t, !.op = op, !.newValue = newValue]
  /\ UNCHANGED <<kind, hasArmAtomics, cell, oldValue, last, aborted, latest,
                 twin>>

\* ... then work on the value, release the lock and return.
ReleaseLock(t) ==
  /\ lock.holder = t
  /\ IF lock.op = "load"
       THEN LoadCall(t, LockLoadOrder)
       ELSE CompareExchangeWeakCall(t, lock.newValue, LockCasOrders[1],
                                    LockCasOrders[2])
  /\ lock' = Unlocked(lock.lockFree)
  /\ UNCHANGED twin

\* The steps thread t can take on its own.
StepOf(t) ==
  \/ DirectLoad(t)
  \/ \E newValue \in Value : DirectCompareExchangeWeak(t, newValue)
  \/ TakeLock(t, "load", Zero)
  \/ \E newValue \in Value : TakeLock(t, "cas", newValue)
  \/ ReleaseLock(t)

NextLock == \E t \in Threads : StepOf(t)

SpecLock == InitLock /\ [][NextLock]_vars

\* ------------------------------------------------------------ what a step is

\* The step is a call: every call leaves its record in last, and a step
\* that repeats the previous record changes nothing at all.
IsCall == last' # last
IsLoad == IsCall /\ last'.op = "load"
IsCas == IsCall /\ last'.op = "cas"
Caller == last'.thread

\* ------------------------------------------------------------------- claims

\* C1: threads racing with compare_exchange_weak on one cell: the stored
\* value changes only in the step of a call that returns true; a call that
\* returns true found its expected value in the cell and has its newValue in
\* the cell when it returns (one success per occurrence of a prior value, no
\* lost update); and once a call has returned true the stored value is the
\* newValue of a call that returned true.
C1_Atomicity ==
  /\ [][(cell' # cell => IsCas /\ last'.outcome = "true")
        /\ (IsCas /\ last'.outcome = "true"
              => cell = oldValue[Caller] /\ cell' = last'.newValue)]_vars
  /\ [](latest.by = "cas" => cell = latest.value)

\* Threads 1 and 2 held the same expected value, thread 2's call returned
\* true against it and the cell holds thread 2's newValue, another value.
C1_Witness ==
  /\ last.op = "cas" /\ last.outcome = "true" /\ last.thread = 2
  /\ oldValue[1] = oldValue[2]
  /\ cell = last.newValue /\ cell # oldValue[2]
  /\ latest.by = "cas"

\* C2: on both strategies a compare_exchange_weak (with orderings the cell
\* accepts) whose expected value differs from the stored one returns false,
\* writes the stored value into expected and leaves the cell as it was; a
\* load returns the stored value and leaves it too.
C2_FailedCasLeavesCell ==
  /\ [][IsCas /\ last'.outcome # "abort" /\ oldValue[Caller] # cell
          => /\ last'.outcome = "false"
             /\ oldValue'[Caller] = cell
             /\ cell' = cell]_vars
  /\ [][IsLoad /\ last'.outcome # "abort"
          => last'.result = cell /\ cell' = cell]_vars

\* On the wide cell, which never fails spuriously: a call returned false and
\* the caller's expected now holds the stored value, which is not newValue.
C2_Witness ==
  /\ kind = "wide"
  /\ last.op = "cas" /\ last.outcome = "false"
  /\ oldValue[last.thread] = cell
  /\ cell # last.newValue

\* Every load returns the construction value while no compare_exchange_weak
\* has returned true, and then the newValue of the latest one that did.
LoadReflectsLatest ==
  IsLoad /\ last'.outcome # "abort" => last'.result = latest.value

\* C3 as stated: in a single-threaded sequence compare_exchange_weak(v, d,
\* release, relaxed) on a cell holding v returns true, and every load
\* returns the construction value or the newValue of the latest success.
C3_AsStated ==
  [][/\ (IsCas /\ last'.successOrder = "release"
           /\ last'.failureOrder = "relaxed" /\ oldValue[Caller] = cell
           => last'.outcome = "true")
     /\ LoadReflectsLatest]_vars

\* C3, amended: the call returns true and stores d or, on the generic cell
\* only, fails spuriously and changes nothing; every load returns the
\* construction value or the newValue of the latest success.
C3_LoadReflectsLastStore ==
  [][/\ (IsCas /\ last'.successOrder = "release"
           /\ last'.failureOrder = "relaxed" /\ oldValue[Caller] = cell
           => \/ last'.outcome = "true" /\ cell' = last'.newValue
              \/ /\ kind = "generic" /\ last'.outcome = "false"
                 /\ cell' = cell /\ oldValue' = oldValue)
     /\ LoadReflectsLatest]_vars

\* A load(acquire) has returned the newValue of an earlier successful
\* compare_exchange_weak.
C3_Witness ==
  /\ last.op = "load" /\ last.order = "acquire" /\ last.outcome = "loaded"
  /\ latest.by = "cas"
  /\ last.result = latest.value

\* The loop's compare_exchange_weak has returned true.
Succeeded == latest.by = "cas"

\* C4: one thread looping compare_exchange_weak(expected, d, ...) on a cell
\* holding expected's value, reusing the expected written back by each
\* failure, with no other thread touching the cell and spurious failures not
\* repeating for ever: the call eventually returns true, and from then on
\* the cell holds d and every load returns d.
C4_RetryConverges ==
  /\ <>Succeeded
  /\ [](Succeeded => cell = latest.value)
  /\ [][Succeeded' /\ IsLoad => last'.result = latest'.value]_vars

\* On the generic cell the loop has ended and a load has returned d, which
\* is not the value the cell held when the loop began.
C4_Witness ==
  /\ kind = "generic"
  /\ Succeeded
  /\ last.op = "load" /\ last.outcome = "loaded"
  /\ last.result = latest.value
  /\ last.result # oldValue[1]

\* The two cells have returned the same, handed back the same and hold the
\* same.
PairAgree ==
  /\ twin.cell = cell
  /\ twin.oldValue = oldValue[1]
  /\ twin.outcome = last.outcome
  /\ twin.result = last.result

\* C5 as stated: after any sequence of calls the generic and the wide cell
\* have produced the same results, the same written-back expected values,
\* the same load results and the same stored value.
C5_AsStated == PairAgree

\* Orderings that are within std::atomic's preconditions and pass the wide
\* cell's assertions.
BothAccept(c) ==
  /\ c.op = "load" => c.order \in {"relaxed", "consume", "acquire"}
  /\ c.op = "cas" => /\ c.successOrder \in {"relaxed", "release"}
                     /\ c.failureOrder = "relaxed"

\* C5, amended: while the two cells agree, a call with orderings both accept
\* leaves them agreeing, unless the generic cell's compare_exchange_weak
\* fails spuriously (changing nothing) where the wide cell's returns true.
C5_PairEquivalence ==
  [][PairAgree /\ BothAccept(last')
       => \/ PairAgree'
          \/ /\ last'.op = "cas" /\ last'.outcome = "true"
             /\ twin'.outcome = "false"
             /\ twin'.cell = twin.cell
             /\ twin'.oldValue = twin.oldValue]_vars

\* Both cells returned true to the same compare_exchange_weak and hold its
\* newValue, which is not the expected value they were called with.
C5_Witness ==
  /\ last.op = "cas" /\ last.outcome = "true" /\ twin.outcome = "true"
  /\ twin.cell = cell /\ cell = last.newValue
  /\ cell # oldValue[1] /\ twin.oldValue = oldValue[1]

\* The call ended in an assertion: nothing was stored, nothing written back.
Rejected ==
  /\ last'.outcome = "abort" /\ aborted'
  /\ last'.insn = "none"
  /\ cell' = cell /\ oldValue' = oldValue

\* The call was carried out.
CarriedOut == last'.outcome \in {"true", "false"} /\ last'.insn # "none"

\* C6 as stated: a compare_exchange_weak with success_order acquire trips an
\* assertion on the generic and on the wide cell, changes nothing and does
\* not return true.
C6_AsStated ==
  [][IsCas /\ last'.successOrder = "acquire" => Rejected]_vars

\* C6, amended: success_order acquire trips an assertion on the wide cell,
\* where the call changes nothing and does not return true; the generic
\* cell carries the call out when failure_order is relaxed, consume or
\* acquire.
C6_WideRejectsAcquireSuccess ==
  [][IsCas /\ last'.successOrder = "acquire"
       => /\ kind = "wide" => Rejected
          /\ kind = "generic"
               /\ last'.failureOrder \in {"relaxed", "consume", "acquire"}
               => CarriedOut]_vars

C6_Witness ==
  /\ kind = "wide" /\ aborted
  /\ last.op = "cas" /\ last.successOrder = "acquire"
  /\ last.outcome = "abort"

\* C7 as stated: a compare_exchange_weak whose failure_order is stronger
\* than its success_order, or is release or acq_rel, trips an assertion on
\* every strategy and is never carried out.
C7_AsStated ==
  [][IsCas /\ (\/ AcquireStrength(last'.failureOrder)
                    > AcquireStrength(last'.successOrder)
               \/ last'.failureOrder \in {"release", "acq_rel"})
       => Rejected]_vars

\* C7, amended: on the wide cell a failure_order of release or acq_rel
\* trips an assertion and the call is never carried out; a failure_order
\* stronger than the success_order does not: success relaxed or release
\* with failure acquire or consume is carried out.
C7_WideRejectsStoreFailureOrder ==
  [][IsCas /\ kind = "wide"
       => /\ last'.failureOrder \in {"release", "acq_rel"} => Rejected
          /\ last'.successOrder \in {"relaxed", "release"}
               /\ last'.failureOrder \in {"acquire", "consume"}
               => CarriedOut]_vars

C7_Witness ==
  /\ kind = "wide" /\ aborted
  /\ last.op = "cas" /\ last.failureOrder \in {"release", "acq_rel"}
  /\ last.successOrder \in {"relaxed", "release"}
  /\ last.outcome = "abort"

\* C8: a load with order release or acq_rel trips an assertion on every
\* strategy, the generic cell included, and never returns a value.
C8_AsStated ==
  [][IsLoad /\ last'.order \in {"release", "acq_rel"}
       => last'.outcome = "abort" /\ aborted']_vars

\* C9: the wide cell's compare_exchange_weak carries out exactly the calls
\* with failure_order relaxed, acquire or consume and success_order relaxed
\* or release; every other pair trips an assertion before an instruction is
\* issued, leaving the stored value and expected as they were.
C9_WideCasAcceptedPairs ==
  [][IsCas /\ kind = "wide"
       => IF /\ last'.failureOrder \in {"relaxed", "acquire", "consume"}
             /\ last'.successOrder \in {"relaxed", "release"}
            THEN CarriedOut
            ELSE Rejected]_vars

C9_Witness ==
  /\ kind = "wide" /\ aborted
  /\ last.op = "cas" /\ last.successOrder = "seq_cst"
  /\ last.failureOrder = "relaxed"
  /\ last.outcome = "abort" /\ last.insn = "none"

\* C10: the wide cell's load carries out exactly the loads with order
\* relaxed, acquire or consume; release, acq_rel and seq_cst trip an
\* assertion before an instruction touches the cell.
C10_WideLoadAcceptedOrders ==
  [][IsLoad /\ kind = "wide"
       => IF last'.order \in {"relaxed", "acquire", "consume"}
            THEN last'.outcome = "loaded" /\ last'.insn # "none"
            ELSE Rejected]_vars

C10_Witness ==
  /\ kind = "wide" /\ aborted
  /\ last.op = "load" /\ last.order = "seq_cst"
  /\ last.outcome = "abort" /\ last.insn = "none"

\* C11 as stated: no call ever waits on another thread.  In every state
\* every thread has a step of a call to take, and every call a thread starts
\* returns in that same step, so that no thread is ever left in mid-call
\* holding something the others need.
C11_AsStated ==
  /\ lock.holder = 0
  /\ \A t \in Threads : ENABLED StepOf(t)

\* C11, amended: on the wide cell, and on the generic cell where
\* std::atomic<Value> is lock-free, no call waits on another thread: every
\* thread can always start a call, and the call returns in that same step.
\* (Where std::atomic<Value> takes a lock, a thread stopped while holding it
\* keeps every other thread waiting.)
C11_LockFree ==
  (kind = "wide" \/ lock.lockFree)
    => /\ lock.holder = 0
       /\ \A t \in Threads :
            /\ ENABLED DirectLoad(t)
            /\ \A newValue \in Value :
                 ENABLED DirectCompareExchangeWeak(t, newValue)

C11_Witness ==
  /\ kind = "wide" /\ ~lock.lockFree
  /\ last.thread = 2 /\ last.op = "cas" /\ last.outcome = "false"
  /\ latest.by = "cas"
  /\ last.insn \in {"rel", "full"}

\* The step did to the cell, and returned to the caller, what outcome r says.
StepIs(r) ==
  /\ cell' = r.cell
  /\ last'.outcome = r.outcome
  /\ last'.result = r.out
  /\ last'.insn = r.insn

\* C12: a call on atomic<T> is the call of the same name on the cell strategy
\* its size selects, made with the ordering(s) the caller named: the wide
\* cell's on a wide value, the generic cell's on any other, and nothing else
\* is done to the cell or to expected.
C12_WrapperForwards ==
  [][/\ IsLoad =>
          /\ \E r \in IF kind = "wide"
                         THEN WideLoad(hasArmAtomics, cell, last'.order)
                         ELSE GenericLoad(cell, last'.order) : StepIs(r)
          /\ oldValue' = oldValue
     /\ IsCas =>
          \E r \in IF kind = "wide"
                      THEN WideCompareExchangeWeak(
                             hasArmAtomics, cell, oldValue[Caller],
                             last'.newValue, last'.successOrder,
                             last'.failureOrder)
                      ELSE GenericCompareExchangeWeak(
                             cell, oldValue[Caller], last'.newValue,
                             last'.successOrder, last'.failureOrder) :
            /\ StepIs(r)
            /\ oldValue' = [oldValue EXCEPT ![Caller] = r.out]]_vars

\* A relaxed load on a wide cell with the unfenced variant at hand is issued
\* unfenced: the order reached the cell as the caller named it.
C12_Witness ==
  /\ kind = "wide" /\ hasArmAtomics
  /\ last.op = "load" /\ last.order = "relaxed"
  /\ last.outcome = "loaded" /\ last.insn = "nf"
  /\ last.result = cell /\ cell # Zero

\* C13: where the four instruction variants exist, a compare_exchange_weak the
\* wide cell carries out issues the unfenced variant for success relaxed with
\* failure relaxed or consume, the acquire variant for success relaxed with
\* failure acquire, the release variant for success release with failure
\* relaxed or consume, and the fully fenced one for success release with
\* failure acquire; where they do not exist it issues the fully fenced
\* instruction for all six pairs.
C13_WeakestVariant ==
  [][IsCas /\ kind = "wide" /\ CarriedOut
       => last'.insn =
            IF ~hasArmAtomics THEN "full"
            ELSE CASE /\ last'.successOrder = "relaxed"
                      /\ last'.failureOrder \in {"relaxed", "consume"} -> "nf"
                   [] /\ last'.successOrder = "relaxed"
                      /\ last'.failureOrder = "acquire" -> "acq"
                   [] /\ last'.successOrder = "release"
                      /\ last'.failureOrder \in {"relaxed", "consume"} -> "rel"
                   [] /\ last'.successOrder = "release"
                      /\ last'.failureOrder = "acquire" -> "full"]_vars

C13_Witness ==
  /\ kind = "wide" /\ hasArmAtomics
  /\ last.op = "cas" /\ last.successOrder = "relaxed"
  /\ last.failureOrder = "acquire"
  /\ last.outcome = "true" /\ last.insn = "acq"

\* C14: the wide cell never under-synchronizes.  Whatever the build, a load
\* it carries out with order acquire, and a compare_exchange_weak it carries
\* out with failure_order acquire, issue an instruction that orders as an
\* acquire, and a compare_exchange_weak it carries out with success_order
\* release issues one that orders as a release.
C14_NeverUnderSynchronizes ==
  [][IsCall /\ kind = "wide" /\ last'.outcome # "abort"
       => /\ IsLoad /\ last'.order = "acquire" => HasAcquire(last'.insn)
          /\ IsCas /\ last'.failureOrder = "acquire"
               => HasAcquire(last'.insn)
          /\ IsCas /\ last'.successOrder = "release"
               => HasRelease(last'.insn)]_vars

C14_Witness ==
  /\ kind = "wide" /\ hasArmAtomics
  /\ last.op = "cas" /\ last.successOrder = "release"
  /\ last.failureOrder = "consume"
  /\ last.outcome = "false" /\ last.insn = "rel"

\* C15: a load the wide cell carries out returns the value the cell holds
\* in that step and leaves the cell holding it, whatever the other threads
\* have stored before and whatever the value: also the all-zero value, which
\* the instruction's comparison with zero matches and replaces with zero.
C15_WideLoadLeavesValue ==
  [][IsLoad /\ kind = "wide" /\ last'.outcome = "loaded"
       => /\ last'.result = cell
          /\ cell' = cell
          /\ cell = Zero => cell' = Zero /\ last'.result = Zero]_vars

\* Another thread's compare_exchange_weak stored the all-zero value over a
\* non-zero one, and thread 2's load then returned it and left it there.
C15_Witness ==
  /\ kind = "wide"
  /\ last.op = "load" /\ last.thread = 2 /\ last.outcome = "loaded"
  /\ last.result = Zero /\ cell = Zero
  /\ latest = [value |-> Zero, by |-> "cas"]

\* C16: a compare_exchange_weak the wide cell carries out returns true if and
\* only if the cell holds the caller's expected value in that step: it never
\* fails with the two equal.
C16_WideCasNeverSpurious ==
  [][IsCas /\ kind = "wide" /\ last'.outcome # "abort"
       => /\ last'.outcome \in {"true", "false"}
          /\ last'.outcome = "true" <=> cell = oldValue[Caller]]_vars

\* Thread 2's call returned true and stored a value other than its expected,
\* which thread 1 holds as its expected too.
C16_Witness ==
  /\ kind = "wide"
  /\ last.op = "cas" /\ last.thread = 2 /\ last.outcome = "true"
  /\ oldValue[2] # cell /\ oldValue[2] # Zero
  /\ oldValue[1] = oldValue[2]

\* C17: a compare_exchange_weak on the wide cell that returns true leaves
\* newValue in the cell, first word in the first place and second word in the
\* second, and leaves expected as it was; a load that follows it returns
\* newValue with its words in those places.
C17_WideCasStoresDesired ==
  [][/\ IsCas /\ kind = "wide" /\ last'.outcome = "true"
          => /\ cell'[1] = last'.newValue[1]
             /\ cell'[2] = last'.newValue[2]
             /\ oldValue'[Caller] = oldValue[Caller]
     /\ IsLoad /\ kind = "wide" /\ last'.outcome = "loaded"
          /\ last.op = "cas" /\ last.outcome = "true"
          => last'.result = last.newValue]_vars

\* A value with unequal words was stored over another and loaded back.
C17_Witness ==
  /\ kind = "wide"
  /\ last.op = "load" /\ last.outcome = "loaded"
  /\ latest.by = "cas" /\ last.result = latest.value
  /\ last.result[1] # last.result[2]
  /\ oldValue[1] = <<last.result[2], last.result[1]>>

====
